---- MODULE Spec2Model ----
(***************************************************************************)
(* Session-authenticated login API (src/app/main.py) over the user store   *)
(* written by the seeding script (src/create_users.py).                    *)
(*                                                                         *)
(* Python values are rendered as follows:                                  *)
(*   - a dict built at run time (request body, session, response content)  *)
(*     is a set of <<key, value>> pairs with at most one pair per key;     *)
(*   - a user record of USERS is a record with the six keys the seeding    *)
(*     script writes;                                                      *)
(*   - None is the string None; Optional[record] is <<>> or <<record>>;    *)
(*   - a JSON response body is tagged "object" (a dict) or "array"         *)
(*     (a list of dicts).                                                  *)
(***************************************************************************)
EXTENDS Integers, Sequences, FiniteSets, TLC

\* ------------------------------------------------------------------------
\* Bounds
\* ------------------------------------------------------------------------
MaxUsers == 2

\* two clients, each with a cookie of its own
Clients == {"c1", "c2"}

\* ------------------------------------------------------------------------
\* Python / library primitives
\* ------------------------------------------------------------------------
None == "<None>"

\* dict.get(key): the value stored under key, None when the key is absent
dict_get(d, k) ==
    IF \E p \in d : p[1] = k THEN (CHOOSE p \in d : p[1] = k)[2] ELSE None

\* d[key] = value
dict_set(d, k, v) ==
    {p \in d : p[1] # k} \cup {<<k, v>>}

\* dict.clear()
dict_clear(d) ==
    {}

\* Python truthiness of an Optional[str]: None and "" are falsy
falsy(x) ==
    x = None \/ x = ""

\* passlib bcrypt.hash: a one-way image of the secret, never the secret itself
bcrypt_hash(secret) ==
    CASE secret = "adminpass" -> "$2b$12$H.adminpass"
      [] secret = "superpass" -> "$2b$12$H.superpass"
      [] secret = "userpass"  -> "$2b$12$H.userpass"
      [] secret = "userpass2" -> "$2b$12$H.userpass2"
      [] secret = "userpass3" -> "$2b$12$H.userpass3"
      [] secret = "wrongpass" -> "$2b$12$H.wrongpass"
      [] OTHER                -> "$2b$12$H.other"

\* passlib bcrypt.verify(secret, hash) for a str secret
bcrypt_verify(secret, hash) ==
    bcrypt_hash(secret) = hash

\* bcrypt.verify raises TypeError when the secret is not str/bytes
bcrypt_verify_raises(secret) ==
    secret = None

\* ------------------------------------------------------------------------
\* The user store: src/create_users.py writes it, main.py loads it
\* ------------------------------------------------------------------------
SeedIds       == <<"uuid-1", "uuid-2", "uuid-3", "uuid-4", "uuid-5">>
SeedUsernames == <<"admin", "super1", "usuario1", "usuario2", "usuario3">>
SeedPasswords == <<"adminpass", "superpass", "userpass", "userpass2", "userpass3">>
SeedNombres   == <<"Administrador", "Supervisor Uno", "Usuario Uno", "Usuario Dos", "Usuario Tres">>
SeedEmails    == <<"admin@ejemplo.com", "super1@ejemplo.com", "user1@ejemplo.com",
                   "user2@ejemplo.com", "user3@ejemplo.com">>
Roles         == {"admin", "supervisor", "usuario"}

\* one record of raw_users after the hashing loop
raw_user(i, role) ==
    [id       |-> SeedIds[i],
     username |-> SeedUsernames[i],
     password |-> bcrypt_hash(SeedPasswords[i]),
     nombre   |-> SeedNombres[i],
     email    |-> SeedEmails[i],
     role     |-> role]

\* the store exactly as create_users.py seeds it
raw_users ==
    <<raw_user(1, "admin"), raw_user(2, "supervisor"), raw_user(3, "usuario")>>

\* the contents usuarios.json can have: the seeded store, and every list of
\* up to MaxUsers records with unique ids and usernames, each with one of
\* the roles
Stores ==
    {raw_users} \cup
    UNION { { [i \in 1..n |-> raw_user(i, r[i])] : r \in [1..n -> Roles] } : n \in 0..MaxUsers }

\* an id of a store of an earlier run of create_users.py (uuid4 is fresh on
\* every run), still carried by a cookie signed with the same SESSION_SECRET
StaleIds == {"uuid-stale"}

VARIABLES
    USERS,      \* the list loaded from usuarios.json
    session,    \* session[c]: the session dict carried by client c's cookie
    hist,       \* history: "fresh" (no login or logout yet), "out" (logged out),
                \* or the id of the most recent successful login since
    last        \* the last request served and its response

vars == <<USERS, session, hist, last>>

\* ------------------------------------------------------------------------
\* Responses
\* ------------------------------------------------------------------------
HTTP_401_UNAUTHORIZED == 401
HTTP_200_OK == 200
HTTP_201_CREATED == 201
HTTP_500_INTERNAL_SERVER_ERROR == 500

\* Response(content) / Response(content, status_code=...): status_code is
\* None (rendered 0) when the handler does not pass one
NoStatus == 0

Response(content, status_code) ==
    [content |-> content, status_code |-> status_code]

JsonObject(d) ==
    [json |-> "object", obj |-> d, arr |-> <<>>]

JsonArray(l) ==
    [json |-> "array", obj |-> {}, arr |-> l]

\* @post: a handler's Response without status_code is sent with the
\* decorator's default status, 201 Created for POST
post(resp) ==
    [content |-> resp.content,
     status_code |-> IF resp.status_code = NoStatus THEN HTTP_201_CREATED ELSE resp.status_code]

\* @get: default status 200 OK
get(resp) ==
    [content |-> resp.content,
     status_code |-> IF resp.status_code = NoStatus THEN HTTP_200_OK ELSE resp.status_code]

\* an exception that leaves the handler is answered by the application with
\* 500 Internal Server Error
InternalServerError ==
    [content |-> JsonObject({<<"status_code", "500">>, <<"detail", "Internal Server Error">>}),
     status_code |-> HTTP_500_INTERNAL_SERVER_ERROR]

\* ------------------------------------------------------------------------
\* Helpers of main.py
\* ------------------------------------------------------------------------
RECURSIVE scan_username(_, _, _)
scan_username(users, username, i) ==
    IF i > Len(users) THEN <<>>
    ELSE IF users[i].username = username THEN <<users[i]>>
    ELSE scan_username(users, username, i + 1)

\* first record whose username matches, or None
find_user_by_username(username) ==
    scan_username(USERS, username, 1)

RECURSIVE scan_id(_, _, _)
scan_id(users, user_id, i) ==
    IF i > Len(users) THEN <<>>
    ELSE IF users[i].id = user_id THEN <<users[i]>>
    ELSE scan_id(users, user_id, i + 1)

\* next((u for u in USERS if u["id"] == user_id), None)
find_user_by_id(user_id) ==
    scan_id(USERS, user_id, 1)

\* mutant: the supervisor branch returns the whole list
filter_users_supervisor_sees_all(auth_user) ==
    LET role == auth_user.role
        is_self(u) == u.id = auth_user.id
    IN  IF role = "admin" THEN USERS
        ELSE IF role = "supervisor" THEN USERS
        ELSE SelectSeq(USERS, is_self)

\* mutant: the last branch selects by role instead of by id
filter_users_same_role(auth_user) ==
    LET role == auth_user.role
        not_admin(u) == u.role # "admin"
        same_role(u) == u.role = auth_user.role
    IN  IF role = "admin" THEN USERS
        ELSE IF role = "supervisor" THEN SelectSeq(USERS, not_admin)
        ELSE SelectSeq(USERS, same_role)

\* mutant: the supervisor branch also leaves out the supervisors
filter_users_supervisor_excluded(auth_user) ==
    LET role == auth_user.role
        plain(u) == u.role \notin {"admin", "supervisor"}
        is_self(u) == u.id = auth_user.id
    IN  IF role = "admin" THEN USERS
        ELSE IF role = "supervisor" THEN SelectSeq(USERS, plain)
        ELSE SelectSeq(USERS, is_self)

\* the list comprehensions keep the order of USERS (SelectSeq)
filter_users_for_role(auth_user) ==
    LET role == auth_user.role
        not_admin(u) == u.role # "admin"
        is_self(u) == u.id = auth_user.id
    IN  IF role = "admin" THEN USERS
        ELSE IF role = "supervisor" THEN SelectSeq(USERS, not_admin)
        ELSE SelectSeq(USERS, is_self)

\* mutant: the comprehension filters a key the records do not have
safe_user_wrong_key(user) ==
    {<<k, user[k]>> : k \in (DOMAIN user) \ {"password_hash"}}

\* {k: v for k, v in user.items() if k != "password"}
safe_user(user) ==
    {<<k, user[k]>> : k \in (DOMAIN user) \ {"password"}}

\* mutant: the list is returned without stripping
safe_list_unstripped(filtered) ==
    [i \in 1..Len(filtered) |-> {<<k, filtered[i][k]>> : k \in DOMAIN filtered[i]}]

\* mutant: the stripped list is built back to front
safe_list_reversed(filtered) ==
    [i \in 1..Len(filtered) |-> safe_user(filtered[Len(filtered) + 1 - i])]

\* [safe_user(u) for u in filtered]
safe_list(filtered) ==
    [i \in 1..Len(filtered) |-> safe_user(filtered[i])]

\* ------------------------------------------------------------------------
\* Handlers: each returns the response and the session after the call
\* ------------------------------------------------------------------------
Outcome(resp, sess) ==
    [response |-> resp, session |-> sess]

\* mutant: an unknown username gets an error message of its own
login_distinct_errors(data, sess) ==
    LET username == dict_get(data, "username")
        password == dict_get(data, "password")
        user == find_user_by_username(username)
    IN  IF user = <<>>
        THEN Outcome(post(Response(JsonObject({<<"error", "Usuario no encontrado">>}),
                                   HTTP_401_UNAUTHORIZED)), sess)
        ELSE IF bcrypt_verify_raises(password)
        THEN Outcome(InternalServerError, sess)
        ELSE IF ~bcrypt_verify(password, user[1].password)
        THEN Outcome(post(Response(JsonObject({<<"error", "Credenciales inválidas">>}),
                                   HTTP_401_UNAUTHORIZED)), sess)
        ELSE Outcome(post(Response(JsonObject({<<"message", "Login exitoso">>,
                                               <<"role", user[1].role>>}), NoStatus)),
                     dict_set(sess, "user_id", user[1].id))

\* mutant: the session is written as soon as the user is found, before the
\* password is verified
login_writes_session_first(data, sess) ==
    LET username == dict_get(data, "username")
        password == dict_get(data, "password")
        user == find_user_by_username(username)
    IN  IF user = <<>>
        THEN Outcome(post(Response(JsonObject({<<"error", "Credenciales inválidas">>}),
                                   HTTP_401_UNAUTHORIZED)), sess)
        ELSE IF bcrypt_verify_raises(password)
        THEN Outcome(InternalServerError, dict_set(sess, "user_id", user[1].id))
        ELSE IF ~bcrypt_verify(password, user[1].password)
        THEN Outcome(post(Response(JsonObject({<<"error", "Credenciales inválidas">>}),
                                   HTTP_401_UNAUTHORIZED)),
                     dict_set(sess, "user_id", user[1].id))
        ELSE Outcome(post(Response(JsonObject({<<"message", "Login exitoso">>,
                                               <<"role", user[1].role>>}), NoStatus)),
                     dict_set(sess, "user_id", user[1].id))

\* mutant: the username, not the id, is written to the session
login_stores_username(data, sess) ==
    LET username == dict_get(data, "username")
        password == dict_get(data, "password")
        user == find_user_by_username(username)
    IN  IF user = <<>>
        THEN Outcome(post(Response(JsonObject({<<"error", "Credenciales inválidas">>}),
                                   HTTP_401_UNAUTHORIZED)), sess)
        ELSE IF bcrypt_verify_raises(password)
        THEN Outcome(InternalServerError, sess)
        ELSE IF ~bcrypt_verify(password, user[1].password)
        THEN Outcome(post(Response(JsonObject({<<"error", "Credenciales inválidas">>}),
                                   HTTP_401_UNAUTHORIZED)), sess)
        ELSE Outcome(post(Response(JsonObject({<<"message", "Login exitoso">>,
                                               <<"role", user[1].role>>}), NoStatus)),
                     dict_set(sess, "user_id", user[1].username))

login(data, sess) ==
    LET username == dict_get(data, "username")
        password == dict_get(data, "password")
        user == find_user_by_username(username)
    IN  IF user = <<>>
        THEN Outcome(post(Response(JsonObject({<<"error", "Credenciales inválidas">>}),
                                   HTTP_401_UNAUTHORIZED)), sess)
        ELSE IF bcrypt_verify_raises(password)
        THEN Outcome(InternalServerError, sess)
        ELSE IF ~bcrypt_verify(password, user[1].password)
        THEN Outcome(post(Response(JsonObject({<<"error", "Credenciales inválidas">>}),
                                   HTTP_401_UNAUTHORIZED)), sess)
        ELSE Outcome(post(Response(JsonObject({<<"message", "Login exitoso">>,
                                               <<"role", user[1].role>>}), NoStatus)),
                     dict_set(sess, "user_id", user[1].id))

\* mutant: the session is not cleared
logout_keeps_session(sess) ==
    Outcome(post(Response(JsonObject({<<"message", "Logout exitoso">>}), NoStatus)), sess)

logout(sess) ==
    Outcome(post(Response(JsonObject({<<"message", "Logout exitoso">>}), NoStatus)),
            dict_clear(sess))

me(sess) ==
    LET user_id == dict_get(sess, "user_id")
        user == find_user_by_id(user_id)
    IN  IF falsy(user_id)
        THEN Outcome(get(Response(JsonObject({<<"error", "No autenticado">>}),
                                  HTTP_401_UNAUTHORIZED)), sess)
        ELSE IF user = <<>>
        THEN Outcome(get(Response(JsonObject({<<"error", "Usuario no encontrado">>}),
                                  HTTP_401_UNAUTHORIZED)), sess)
        ELSE Outcome(get(Response(JsonObject(safe_user(user[1])), NoStatus)), sess)

\* mutant: a dangling user_id is answered like a missing one
list_users_dangling_as_missing(sess) ==
    LET user_id == dict_get(sess, "user_id")
        auth_user == find_user_by_id(user_id)
    IN  IF falsy(user_id) \/ auth_user = <<>>
        THEN Outcome(get(Response(JsonObject({<<"error", "No autenticado">>}),
                                  HTTP_401_UNAUTHORIZED)), sess)
        ELSE Outcome(get(Response(JsonArray(safe_list(filter_users_for_role(auth_user[1]))),
                                  NoStatus)), sess)

list_users(sess) ==
    LET user_id == dict_get(sess, "user_id")
        auth_user == find_user_by_id(user_id)
    IN  IF falsy(user_id)
        THEN Outcome(get(Response(JsonObject({<<"error", "No autenticado">>}),
                                  HTTP_401_UNAUTHORIZED)), sess)
        ELSE IF auth_user = <<>>
        THEN Outcome(get(Response(JsonObject({<<"error", "Usuario no encontrado">>}),
                                  HTTP_401_UNAUTHORIZED)), sess)
        ELSE Outcome(get(Response(JsonArray(safe_list(filter_users_for_role(auth_user[1]))),
                                  NoStatus)), sess)

\* ------------------------------------------------------------------------
\* Requests
\* ------------------------------------------------------------------------
\* the bodies a client may send: every registered username with its own
\* password, with the first user's password, with a password of nobody and
\* with no password field; an unknown username; no username field
UsernameInputs ==
    UNION { {store[i].username : i \in 1..Len(store)} : store \in Stores } \cup {"ghost"}

PasswordInputs(u) ==
    {SeedPasswords[i] : i \in {j \in 1..Len(SeedUsernames) : SeedUsernames[j] = u}}
    \cup (IF u = "ghost" THEN {} ELSE {SeedPasswords[1]})
    \cup {"wrongpass"}

LoginBodies ==
    UNION { { {<<"username", u>>, <<"password", p>>} : p \in PasswordInputs(u) } : u \in UsernameInputs }
    \cup { {<<"username", u>>} : u \in UsernameInputs }
    \cup { {<<"password", "wrongpass">>}, {} }

\* a 2xx answer
Successful(resp) ==
    resp.status_code \in 200..299

Served(c, op, data, out) ==
    [client |-> c, op |-> op, data |-> data, response |-> out.response]

\* ------------------------------------------------------------------------
\* State machine
\* ------------------------------------------------------------------------
Init ==
    /\ USERS \in Stores
    /\ session \in [Clients -> {{}} \cup {{<<"user_id", i>>} : i \in StaleIds}]
    /\ hist = [c \in Clients |-> "fresh"]
    /\ last = [client |-> "none", op |-> "none", data |-> {},
               response |-> [content |-> JsonObject({}), status_code |-> NoStatus]]

\* mutant: one session kept on the server and shared by all clients
Login_shared_session(c, data) ==
    LET out == login(data, session[c])
    IN  /\ session' = [d \in Clients |-> out.session]
        /\ hist' = IF Successful(out.response)
                   THEN [hist EXCEPT ![c] = find_user_by_username(dict_get(data, "username"))[1].id]
                   ELSE hist
        /\ last' = Served(c, "login", data, out)
        /\ UNCHANGED USERS

Login(c, data) ==
    LET out == login(data, session[c])
    IN  /\ session' = [session EXCEPT ![c] = out.session]
        /\ hist' = IF Successful(out.response)
                   THEN [hist EXCEPT ![c] = find_user_by_username(dict_get(data, "username"))[1].id]
                   ELSE hist
        /\ last' = Served(c, "login", data, out)
        /\ UNCHANGED USERS

Logout(c) ==
    LET out == logout(session[c])
    IN  /\ session' = [session EXCEPT ![c] = out.session]
        /\ hist' = [hist EXCEPT ![c] = "out"]
        /\ last' = Served(c, "logout", {}, out)
        /\ UNCHANGED USERS

Me(c) ==
    LET out == me(session[c])
    IN  /\ session' = [session EXCEPT ![c] = out.session]
        /\ last' = Served(c, "me", {}, out)
        /\ UNCHANGED <<USERS, hist>>

\* mutant: the password is removed in place from the records of the filtered
\* list, which are the records of USERS themselves
Users_strips_in_place(c) ==
    LET out == list_users(session[c])
        shown == {out.response.content.arr[k] : k \in 1..Len(out.response.content.arr)}
        stripped(u) == [k \in (DOMAIN u) \ {"password"} |-> u[k]]
    IN  /\ session' = [session EXCEPT ![c] = out.session]
        /\ last' = Served(c, "users", {}, out)
        /\ USERS' = [i \in 1..Len(USERS) |->
                        IF safe_user(USERS[i]) \in shown THEN stripped(USERS[i]) ELSE USERS[i]]
        /\ UNCHANGED hist

Users(c) ==
    LET out == list_users(session[c])
    IN  /\ session' = [session EXCEPT ![c] = out.session]
        /\ last' = Served(c, "users", {}, out)
        /\ UNCHANGED <<USERS, hist>>

Next ==
    \/ \E c \in Clients, data \in LoginBodies : Login(c, data)
    \/ \E c \in Clients : Logout(c)
    \/ \E c \in Clients : Me(c)
    \/ \E c \in Clients : Users(c)

Spec == Init /\ [][Next]_vars

\* the program started on the store that create_users.py seeds
InitSeeded ==
    /\ Init
    /\ USERS = raw_users

SpecSeeded == InitSeeded /\ [][Next]_vars

\* every client starts with an empty session (no cookie yet)
InitEmptySessions ==
    /\ Init
    /\ \A c \in Clients : session[c] = {}

SpecEmptySessions == InitEmptySessions /\ [][Next]_vars

\* ------------------------------------------------------------------------
\* Vocabulary of the properties: the request just served and its answer
\* ------------------------------------------------------------------------
Status == last.response.status_code
Content == last.response.content
ReqUsername == dict_get(last.data, "username")
ReqPassword == dict_get(last.data, "password")
SessionUserId(c) == dict_get(session[c], "user_id")
StoreIds == {USERS[i].id : i \in 1..Len(USERS)}
ErrorObject(msg) == JsonObject({<<"error", msg>>})

\* the public fields of a store record, written out key by key
PublicRecord(u) ==
    {<<"id", u.id>>, <<"username", u.username>>, <<"nombre", u.nombre>>,
     <<"email", u.email>>, <<"role", u.role>>}

\* the request just served is a login with the username and the password of USERS[i]
CorrectLogin(i) ==
    /\ last.op = "login"
    /\ ReqUsername = USERS[i].username
    /\ ReqPassword # None
    /\ bcrypt_hash(ReqPassword) = USERS[i].password

\* a login naming a registered user with a password that is not that user's
WrongPassword(l) ==
    /\ l.op = "login"
    /\ dict_get(l.data, "password") # None
    /\ \E i \in 1..Len(USERS) :
          /\ USERS[i].username = dict_get(l.data, "username")
          /\ bcrypt_hash(dict_get(l.data, "password")) # USERS[i].password

\* a login naming a username that no record of the store has
UnknownUser(l) ==
    /\ l.op = "login"
    /\ dict_get(l.data, "username") # None
    /\ \A i \in 1..Len(USERS) : USERS[i].username # dict_get(l.data, "username")

\* ------------------------------------------------------------------------
\* C1: for every registered user U, login with U's username and the password
\* matching U's stored hash returns status 200 with role U.role, and the
\* session then holds U.id as user_id, whatever it held before.
\* ------------------------------------------------------------------------
C1_LoginSucceeds200 ==
    \A i \in 1..Len(USERS) :
        CorrectLogin(i) =>
            /\ Status = 200
            /\ dict_get(Content.obj, "role") = USERS[i].role
            /\ SessionUserId(last.client) = USERS[i].id

\* ------------------------------------------------------------------------
\* C2: a login with a registered username and a wrong password and a login
\* with an unknown username are both answered 401, and any two such answers,
\* one after the other, are equal.
\* ------------------------------------------------------------------------
C2_SameInvalidCredentials ==
    [][ ((WrongPassword(last) \/ UnknownUser(last)) /\ (WrongPassword(last') \/ UnknownUser(last')))
            => /\ last'.response = last.response
               /\ last'.response.status_code = 401
               /\ \E p \in last'.response.content.obj : p[1] = "error" ]_vars

C2_Witness ==
    /\ WrongPassword(last)
    /\ ~UnknownUser(last)
    /\ Status = 401
    /\ SessionUserId(last.client) \in StoreIds

\* ------------------------------------------------------------------------
\* C3: users() by an authenticated principal returns every record for an
\* admin, every non-admin record (N minus the admins) for a supervisor, and
\* exactly the principal's own record for any other role.
\* ------------------------------------------------------------------------
ReturnedIds == {dict_get(Content.arr[k], "id") : k \in 1..Len(Content.arr)}
Admins == {i \in 1..Len(USERS) : USERS[i].role = "admin"}

C3_VisibleByRole ==
    \A i \in 1..Len(USERS) :
        (last.op = "users" /\ SessionUserId(last.client) = USERS[i].id) =>
            /\ Status = 200
            /\ Content.json = "array"
            /\ USERS[i].role = "admin" =>
                  /\ Len(Content.arr) = Len(USERS)
                  /\ ReturnedIds = StoreIds
            /\ USERS[i].role = "supervisor" =>
                  /\ Len(Content.arr) = Len(USERS) - Cardinality(Admins)
                  /\ ReturnedIds = {USERS[j].id : j \in (1..Len(USERS)) \ Admins}
            /\ USERS[i].role \notin {"admin", "supervisor"} =>
                  /\ Len(Content.arr) = 1
                  /\ dict_get(Content.arr[1], "id") = USERS[i].id
                  /\ dict_get(Content.arr[1], "username") = USERS[i].username

C3_Witness ==
    /\ last.op = "users"
    /\ Status = 200
    /\ \E i \in 1..Len(USERS) :
          /\ USERS[i].role = "supervisor"
          /\ SessionUserId(last.client) = USERS[i].id
    /\ Admins # {}
    /\ Len(USERS) = Len(raw_users)
    /\ Len(Content.arr) = 2

\* ------------------------------------------------------------------------
\* C4: me() on a session with no successful login so far returns 401; me()
\* after a successful login of U with no logout since returns 200 with U's
\* record without the password hash.
\* ------------------------------------------------------------------------
C4_MeFollowsLogin ==
    last.op = "me" =>
        /\ hist[last.client] = "fresh" => Status = 401
        /\ \A i \in 1..Len(USERS) :
              hist[last.client] = USERS[i].id =>
                  /\ Status = 200
                  /\ Content = JsonObject(PublicRecord(USERS[i]))
                  /\ dict_get(Content.obj, "password") = None

C4_Witness ==
    /\ last.op = "me"
    /\ hist[last.client] \in StoreIds
    /\ Status = 200
    /\ dict_get(Content.obj, "id") = hist[last.client]

\* ------------------------------------------------------------------------
\* C5: after logout(), me() and users() on the same session return 401
\* until a later successful login, whatever came before the logout.
\* ------------------------------------------------------------------------
C5_LoggedOutIs401 ==
    (last.op \in {"me", "users"} /\ hist[last.client] = "out") => Status = 401

C5_Witness ==
    /\ last.op = "users"
    /\ hist[last.client] = "out"
    /\ Status = 401
    /\ \E c \in Clients : c # last.client /\ SessionUserId(c) \in StoreIds

\* ------------------------------------------------------------------------
\* C6: logout() returns status 200 and leaves the session empty from every
\* session state; a second logout() right after gives the same response and
\* the same session as the first.
\* ------------------------------------------------------------------------
C6_LogoutIs200AndIdempotent ==
    [][ last'.op = "logout" =>
            /\ last'.response.status_code = 200
            /\ session'[last'.client] = {}
            /\ (last.op = "logout" /\ last.client = last'.client) =>
                  (last'.response = last.response /\ session' = session) ]_vars

\* ------------------------------------------------------------------------
\* C7: no response carries a stored password hash: no dict of any response
\* has a password key or a stored hash as a value, and of the record fields
\* a login or logout response carries role at most.
\* ------------------------------------------------------------------------
RecordFields == {"id", "username", "password", "nombre", "email", "role"}
StoredHashes == {USERS[i].password : i \in 1..Len(USERS)}
ResponseDicts == {Content.obj} \cup {Content.arr[k] : k \in 1..Len(Content.arr)}

C7_NoPasswordHashInResponses ==
    /\ \A d \in ResponseDicts : \A p \in d : p[1] # "password" /\ p[2] \notin StoredHashes
    /\ last.op \in {"login", "logout"} =>
          {p[1] : p \in Content.obj} \cap RecordFields \subseteq {"role"}

C7_Witness ==
    /\ last.op = "users"
    /\ Status = 200
    /\ Len(Content.arr) = Len(USERS)
    /\ Len(USERS) >= 2
    /\ \A k \in 1..Len(Content.arr) : dict_get(Content.arr[k], "email") = USERS[k].email

\* ------------------------------------------------------------------------
\* C8: me() and users() answer a session whose user_id resolves to no record
\* exactly as a session without user_id: status 401 and the same payload.
\* ------------------------------------------------------------------------
NoUserId(c) == SessionUserId(c) = None
Dangling(c) == SessionUserId(c) # None /\ SessionUserId(c) \notin StoreIds

C9_FailedLoginAndReadsKeepSession ==
    [][ /\ (last'.op = "login" /\ ~Successful(last'.response)) => session' = session
        /\ last'.op \in {"me", "users"} => session' = session ]_vars

C9_Witness ==
    /\ last.op = "login"
    /\ Status = 401
    /\ WrongPassword(last)
    /\ SessionUserId(last.client) \in StoreIds
    /\ hist[last.client] = SessionUserId(last.client)
    /\ \E i \in 1..Len(USERS) :
          USERS[i].username = ReqUsername /\ USERS[i].id # SessionUserId(last.client)

\* ------------------------------------------------------------------------
\* C10: every login request is answered 200 or 401 with a generic error; in
\* particular a body without username, and a body with a registered username
\* but without password, are answered 401.
\* ------------------------------------------------------------------------
C10_MissingFieldIs401 ==
    (last.op = "login" /\ (ReqUsername = None \/ ReqPassword = None)) =>
        /\ Status = 401
        /\ \E p \in Content.obj : p[1] = "error"

\* ------------------------------------------------------------------------
\* C11: no login, logout, me or users request of any client changes the
\* store: the list and every field of every record stay as loaded, also
\* after users() by an admin, whose filter returns the store list itself.
\* ------------------------------------------------------------------------
C11_StoreNeverChanges ==
    [][ /\ USERS' = USERS
        /\ USERS' \in Stores ]_vars

C11_Witness ==
    /\ last.op = "users"
    /\ Status = 200
    /\ \E i \in 1..Len(USERS) :
          USERS[i].role = "admin" /\ SessionUserId(last.client) = USERS[i].id
    /\ Len(Content.arr) = Len(USERS)
    /\ USERS = raw_users
    /\ \A i \in 1..Len(USERS) : USERS[i].password = bcrypt_hash(SeedPasswords[i])

\* ------------------------------------------------------------------------
\* C12: a request of one client changes neither the session of another
\* client nor the answer that client gets: whatever the other client sends
\* next is answered after the step exactly as it would have been before it.
\* ------------------------------------------------------------------------
C12_ClientsDoNotInterfere ==
    [][ \A d \in Clients \ {last'.client} :
            /\ session'[d] = session[d]
            /\ me(session[d])' = me(session[d])
            /\ list_users(session[d])' = list_users(session[d])
            /\ logout(session[d])' = logout(session[d])
            /\ \A data \in LoginBodies : login(data, session[d])' = login(data, session[d]) ]_vars

C12_Witness ==
    /\ last.op = "login"
    /\ Successful(last.response)
    /\ \E d \in Clients :
          /\ d # last.client
          /\ SessionUserId(d) \in StoreIds
          /\ SessionUserId(d) # SessionUserId(last.client)
          /\ hist[d] = SessionUserId(d)
          /\ me(session[d]).response.status_code = 200

\* ------------------------------------------------------------------------
\* C13: a principal whose role is neither admin nor supervisor, the seeded
\* role "usuario" or any other unrecognized role, gets from users() only the
\* record with its own id; the policy has a result for every role.
\* ------------------------------------------------------------------------
UnrecognizedRoles == {"usuario", "standard", "Admin", "SUPERVISOR", ""}

C13_OtherRolesSeeOnlySelf ==
    \A i \in 1..Len(USERS) :
        /\ (last.op = "users" /\ SessionUserId(last.client) = USERS[i].id
                /\ USERS[i].role \notin {"admin", "supervisor"}) =>
              (Status = 200 /\ Content = JsonArray(<<PublicRecord(USERS[i])>>))
        /\ \A r \in UnrecognizedRoles :
              filter_users_for_role([USERS[i] EXCEPT !.role = r]) = <<USERS[i]>>
        /\ filter_users_for_role([USERS[i] EXCEPT !.role = "admin"]) = USERS
        /\ \A k \in 1..Len(filter_users_for_role([USERS[i] EXCEPT !.role = "supervisor"])) :
              filter_users_for_role([USERS[i] EXCEPT !.role = "supervisor"])[k].role # "admin"

C13_Witness ==
    /\ last.op = "users"
    /\ Status = 200
    /\ Len(USERS) >= 2
    /\ \A i \in 1..Len(USERS) : USERS[i].role = "usuario"
    /\ SessionUserId(last.client) = USERS[Len(USERS)].id
    /\ Len(Content.arr) = 1
    /\ dict_get(Content.arr[1], "role") = "usuario"

\* ------------------------------------------------------------------------
\* C14: the records users() returns are a subsequence of the store: each is
\* a store record, and their store positions strictly increase, so none is
\* repeated and none reordered, for every role.
\* ------------------------------------------------------------------------
\* the store positions holding the record returned at place k
StorePositions(k) ==
    {i \in 1..Len(USERS) : PublicRecord(USERS[i]) = Content.arr[k]}

C14_StoreOrderPreserved ==
    (last.op = "users" /\ Status = 200) =>
        /\ \A k \in 1..Len(Content.arr) : StorePositions(k) # {}
        /\ \A k \in 1..(Len(Content.arr) - 1) :
              \A i \in StorePositions(k), j \in StorePositions(k + 1) : i < j

C14_Witness ==
    /\ last.op = "users"
    /\ Status = 200
    /\ USERS = raw_users
    /\ SessionUserId(last.client) = USERS[2].id
    /\ Content.arr = <<PublicRecord(USERS[2]), PublicRecord(USERS[3])>>

\* ------------------------------------------------------------------------
\* C15: started from empty sessions, a session is always either empty or
\* exactly {user_id: id} with the id of a registered user, the one of the
\* most recent successful login since the last logout; a successful login as
\* W on a session holding V's id replaces it, and me() then returns W.
\* ------------------------------------------------------------------------
\* the id of the store record whose username the login just served named
NamedUserId ==
    (CHOOSE i \in 1..Len(USERS) : USERS[i].username = ReqUsername)

SessionIsLatestLogin ==
    /\ \A c \in Clients :
          \/ session[c] = {} /\ hist[c] \in {"fresh", "out"}
          \/ /\ hist[c] \in StoreIds
             /\ session[c] = {<<"user_id", hist[c]>>}
    /\ (last.op = "login" /\ Successful(last.response)) =>
          /\ session[last.client] = {<<"user_id", USERS[NamedUserId].id>>}
          /\ me(session[last.client]).response.content =
                JsonObject(PublicRecord(USERS[NamedUserId]))

LoginReplaces ==
    (last'.op = "login" /\ Successful(last'.response)
        /\ SessionUserId(last'.client) \in StoreIds) =>
            /\ session'[last'.client] = {<<"user_id", hist'[last'.client]>>}
            /\ \E i \in 1..Len(USERS) :
                  /\ USERS[i].username = dict_get(last'.data, "username")
                  /\ USERS[i].id = hist'[last'.client]

C15_SessionHoldsLatestLogin ==
    []SessionIsLatestLogin /\ [][LoginReplaces]_vars

C15_Witness ==
    /\ last.op = "login"
    /\ Successful(last.response)
    /\ Len(USERS) >= 2
    /\ ReqUsername = USERS[2].username
    /\ session[last.client] = {<<"user_id", USERS[2].id>>}
    /\ \E d \in Clients : d # last.client /\ session[d] = {<<"user_id", USERS[1].id>>}

\* ------------------------------------------------------------------------
\* C16: for an authenticated principal of any role, users() contains the
\* principal's own record, and that entry equals the record me() returns on
\* the same session.
\* ------------------------------------------------------------------------
C16_OwnRecordListedAndSameAsMe ==
    (last.op = "users" /\ SessionUserId(last.client) \in StoreIds) =>
        /\ Status = 200
        /\ me(session[last.client]).response.status_code = 200
        /\ \E k \in 1..Len(Content.arr) :
              /\ dict_get(Content.arr[k], "id") = SessionUserId(last.client)
              /\ Content.arr[k] = me(session[last.client]).response.content.obj
        /\ \A k \in 1..Len(Content.arr) :
              dict_get(Content.arr[k], "id") = SessionUserId(last.client) =>
                  Content.arr[k] = me(session[last.client]).response.content.obj

C16_Witness ==
    /\ last.op = "users"
    /\ Status = 200
    /\ USERS = raw_users
    /\ SessionUserId(last.client) = USERS[2].id
    /\ Content.arr[1] = me(session[last.client]).response.content.obj
    /\ dict_get(Content.arr[1], "role") = "supervisor"

====
